---- MODULE Spec2Model ----
(***************************************************************************)
(* Client script of const-tweaker: send / split_name / changed_value /     *)
(* poll, the change log `changed_values`, the DOM elements the script      *)
(* reads and writes, and the fetch requests it has in flight.              *)
(*                                                                         *)
(* JavaScript strings are sequences of one-character strings, so that      *)
(* split, pop, join, replace and + are computed character by character.    *)
(***************************************************************************)
EXTENDS Naturals, Sequences, FiniteSets, Bags

VARIABLES
    changed_values, \* the Map: sequence of [source, line] in insertion order
    labels,         \* id of a present `<source>_label` element -> innerHTML
    outputs,        \* id of a present `<..>_output` textarea   -> value
    status,         \* textContent of the element `status`
    inflight,       \* bag of fetch requests issued and not yet settled
    sends,          \* send calls of this page instance
    ticks,          \* setInterval ticks of this page instance
    reloads,        \* location.reload() calls of this page instance
    arg,            \* argument of the split_name call under test
    ret,            \* its return value
    host            \* the host's tunable set: "valid", or "stale" once invalidated

vars == <<changed_values, labels, outputs, status, inflight,
          sends, ticks, reloads, arg, ret, host>>

(***************************************************************************)
(* Bounds                                                                  *)
(***************************************************************************)
MaxSends == 2       \* send calls per page instance, network interleaved
MaxEdits == 3       \* send calls per page instance, edits only
MaxTicks == 2       \* timer ticks per page instance
MaxSegments == 3    \* segments of a qualified name given to split_name
MaxLiveSends == 1   \* send calls per page instance, timer firing for ever

(***************************************************************************)
(* String literals of the script                                           *)
(***************************************************************************)
SEP == <<":", ":">>
UNDERSCORE == <<"_">>
LABEL_SUFFIX == <<"_", "l", "a", "b", "e", "l">>
OUTPUT_SUFFIX == <<"_", "o", "u", "t", "p", "u", "t">>
STRING_TYPE == <<"s", "t", "r", "i", "n", "g">>
CONST_PREFIX == <<"c", "o", "n", "s", "t", " ">>
STR_DECL == <<":", " ", "&", "s", "t", "r", " ", "=", " ", "\"">>
STR_END == <<"\"", ";">>
COLON_SPACE == <<":", " ">>
EQUALS == <<" ", "=", " ">>
SEMICOLON == <<";">>
NEWLINE == <<"\n">>
HTTP_ERROR == <<"H", "T", "T", "P", " ", "E", "r", "r", "o", "r", ":", " ">>
SET_URL == <<"/", "s", "e", "t", "/">>
REFRESH_URL == <<"/", "s", "h", "o", "u", "l", "d", "_", "r", "e", "f", "r", "e", "s", "h">>

(***************************************************************************)
(* String.prototype.split / Array.prototype.join / String.prototype.replace*)
(***************************************************************************)
\* does `pat` occur in `s` at position q (1-based)?
MatchAt(s, pat, q) ==
    /\ q + Len(pat) - 1 <= Len(s)
    /\ SubSeq(s, q, q + Len(pat) - 1) = pat

RECURSIVE SplitFrom(_, _, _, _)
\* p: start of the current piece, q: scan position
SplitFrom(s, sep, p, q) ==
    IF q > Len(s) THEN <<SubSeq(s, p, Len(s))>>
    ELSE IF MatchAt(s, sep, q)
         THEN <<SubSeq(s, p, q - 1)>> \o SplitFrom(s, sep, q + Len(sep), q + Len(sep))
         ELSE SplitFrom(s, sep, p, q + 1)

Split(s, sep) == SplitFrom(s, sep, 1, 1)

RECURSIVE Join(_, _)
Join(parts, sep) ==
    IF Len(parts) = 0 THEN <<>>
    ELSE IF Len(parts) = 1 THEN parts[1]
    ELSE parts[1] \o sep \o Join(Tail(parts), sep)

RECURSIVE IndexOfFrom(_, _, _)
\* first position >= q at which pat occurs in s, 0 when there is none
IndexOfFrom(s, pat, q) ==
    IF q + Len(pat) - 1 > Len(s) THEN 0
    ELSE IF MatchAt(s, pat, q) THEN q
    ELSE IndexOfFrom(s, pat, q + 1)

\* s.replace(pat, rep) with a string pattern: the first occurrence only
Replace(s, pat, rep) ==
    LET i == IndexOfFrom(s, pat, 1)
    IN  IF i = 0 THEN s
        ELSE SubSeq(s, 1, i - 1) \o rep \o SubSeq(s, i + Len(pat), Len(s))

(***************************************************************************)
(* split_name                                                              *)
(***************************************************************************)
\* the fixed-two-segment rule: the group is the first segment
split_name_first(source) ==
    LET split == Split(source, SEP)
    IN  [variable |-> split[Len(split)], module |-> split[1]]

split_name(source) ==
    LET split == Split(source, SEP)
        variable == split[Len(split)]
        rest == SubSeq(split, 1, Len(split) - 1)
    IN  [variable |-> variable, module |-> Join(rest, SEP)]

(***************************************************************************)
(* Inputs: the tunables the host exposes, the values and kinds a control   *)
(* passes to send, and the outcomes of a request.                          *)
(***************************************************************************)
\* a tunable is a module path (its segments), a constant name and the type
\* its control passes to send
F64_TYPE == <<"f", "6", "4">>
DataTypes == { STRING_TYPE, F64_TYPE }

Tunables ==
    { [path |-> <<<<"a">>>>, name |-> <<"x">>, type |-> F64_TYPE],
      [path |-> <<<<"a">>>>, name |-> <<"y">>, type |-> STRING_TYPE],
      [path |-> <<<<"a">>, <<"b">>, <<"c">>>>, name |-> <<"x">>, type |-> F64_TYPE],
      [path |-> <<<<"a", "_", "b">>, <<"c">>>>, name |-> <<"x">>, type |-> STRING_TYPE] }

QualifiedName(t) == Join(t.path \o <<t.name>>, SEP)
GroupOf(t) == Join(t.path, SEP)

Sources == { QualifiedName(t) : t \in Tunables }
Groups == { GroupOf(t) : t \in Tunables }
TunableOf(source) == CHOOSE t \in Tunables : QualifiedName(t) = source

Values == { <<"1">>, <<"2">> }
\* what `'' + err` yields for the TypeError a failed fetch rejects with
Errors == { <<"F", "a", "i", "l", "e", "d">>, <<"A", "b", "o", "r", "t">> }

\* bodies the host answers GET /should_refresh with
Bodies == { "refresh", "ok", "", "Refresh" }

(***************************************************************************)
(* The page the host serves: which elements exist.  An output textarea per *)
(* group, named by one of three conventions; a label for some tunables.    *)
(***************************************************************************)
LabelId(source) == source \o LABEL_SUFFIX

\* `{group}_output`, the group name unchanged
PlainOutputId(group) == group \o OUTPUT_SUFFIX
\* every `::` of the group name replaced by `_`
FlatOutputId(group) == Join(Split(group, SEP), UNDERSCORE) \o OUTPUT_SUFFIX
\* the id the script looks up
ScriptOutputId(group) == Replace(group, SEP, UNDERSCORE) \o OUTPUT_SUFFIX

Labelled == { t \in Tunables : t.name = <<"x">> }

Pages ==
    { [labels |-> { LabelId(QualifiedName(t)) : t \in Labelled },
       outputs |-> ids] :
      ids \in { { PlainOutputId(g) : g \in Groups },
                { FlatOutputId(g) : g \in Groups },
                { ScriptOutputId(g) : g \in Groups } } }

INITIAL_LABEL == <<"0">>
EMPTY == <<>>

\* state of a freshly loaded page
Loaded(page) ==
    /\ changed_values = <<>>
    /\ labels = [id \in page.labels |-> INITIAL_LABEL]
    /\ outputs = [id \in page.outputs |-> EMPTY]
    /\ status = EMPTY
    /\ inflight = EmptyBag
    /\ sends = 0
    /\ ticks = 0
    /\ reloads = 0

NoRet == [variable |-> <<"?">>, module |-> <<"?">>]

(***************************************************************************)
(* Map.prototype.set and iteration                                         *)
(***************************************************************************)
MapHas(map, key) == \E i \in 1..Len(map) : map[i].source = key
MapIndex(map, key) == CHOOSE i \in 1..Len(map) : map[i].source = key
MapGet(map, key) == map[MapIndex(map, key)].line
\* delete and re-insert: a re-edited key moves to the end
MapSet_moving(map, key, line) ==
    Append(SelectSeq(map, LAMBDA e : e.source # key), [source |-> key, line |-> line])

\* the map built anew on every call: only the latest entry survives
MapSet_fresh(map, key, line) == <<[source |-> key, line |-> line]>>

MapSet(map, key, line) ==
    IF MapHas(map, key)
    THEN [map EXCEPT ![MapIndex(map, key)].line = line]
    ELSE Append(map, [source |-> key, line |-> line])

(***************************************************************************)
(* changed_value                                                           *)
(***************************************************************************)
\* the string branch forgotten: every value emitted unquoted
RenderLine_unquoted(variable, value, data_type) ==
    CONST_PREFIX \o variable \o COLON_SPACE \o data_type \o EQUALS \o value \o SEMICOLON

\* lines 40-45
RenderLine(variable, value, data_type) ==
    IF data_type = STRING_TYPE
    THEN CONST_PREFIX \o variable \o STR_DECL \o value \o STR_END
    ELSE CONST_PREFIX \o variable \o COLON_SPACE \o data_type \o EQUALS \o value \o SEMICOLON

\* the group test of the earlier variant, which never looks at the entry
SameModule_any(module, map_source) == module = module

\* line 51
SameModule(module, map_source) == module = split_name(map_source).module

RECURSIVE PrintMap(_, _)
\* lines 49-54
PrintMap(map, module) ==
    IF Len(map) = 0 THEN <<>>
    ELSE (IF SameModule(module, map[1].source) THEN map[1].line \o NEWLINE ELSE <<>>)
         \o PrintMap(Tail(map), module)

\* line 55
OutputElementId(module) == Replace(module, SEP, UNDERSCORE) \o OUTPUT_SUFFIX

changed_value(source, value, data_type) ==
    LET names == split_name(source)
        line == RenderLine(names.variable, value, data_type)
        id == OutputElementId(names.module)
    IN  /\ changed_values' = MapSet(changed_values, source, line)
        /\ outputs' = IF id \in DOMAIN outputs
                      THEN [outputs EXCEPT ![id] = PrintMap(changed_values', names.module)]
                      ELSE outputs  \* TypeError at line 56, nothing written

(***************************************************************************)
(* send                                                                    *)
(***************************************************************************)
SetRequest(source, value, data_type) ==
    [method |-> "POST", url |-> SET_URL \o data_type, key |-> source, value |-> value]

PollRequest == [method |-> "GET", url |-> REFRESH_URL]

Issue(request) == inflight (+) SetToBag({request})
Settle(request) == inflight (-) SetToBag({request})

\* an early return when the control has no label
send_label_required(source, value, data_type) ==
    IF LabelId(source) \in DOMAIN labels
    THEN /\ labels' = [labels EXCEPT ![LabelId(source)] = value]
         /\ inflight' = Issue(SetRequest(source, value, data_type))
         /\ changed_value(source, value, data_type)
         /\ sends' = sends + 1
         /\ UNCHANGED <<status, ticks, reloads, arg, ret, host>>
    ELSE /\ sends' = sends + 1
         /\ UNCHANGED <<changed_values, labels, outputs, status, inflight,
                        ticks, reloads, arg, ret, host>>

send(source, value, data_type) ==
    /\ labels' = IF LabelId(source) \in DOMAIN labels
                 THEN [labels EXCEPT ![LabelId(source)] = value]
                 ELSE labels
    /\ inflight' = Issue(SetRequest(source, value, data_type))
    /\ changed_value(source, value, data_type)
    /\ sends' = sends + 1
    /\ UNCHANGED <<status, ticks, reloads, arg, ret, host>>

\* the .catch handler of a request, of send and of poll alike
ErrorMessage(err) == HTTP_ERROR \o err

(***************************************************************************)
(* Events                                                                  *)
(***************************************************************************)
\* a control calls send
Send(source, value, data_type) ==
    /\ sends < MaxSends
    /\ send(source, value, data_type)

\* the same, in the specification of edits alone
Edit(source, value, data_type) ==
    /\ sends < MaxEdits
    /\ send(source, value, data_type)

\* the line recorded when the response arrives instead of at call time
SetResponse_records(request) ==
    /\ request.method = "POST"
    /\ BagIn(request, inflight)
    /\ inflight' = Settle(request)
    /\ changed_values' = MapSet(changed_values, request.key,
                                RenderLine(split_name(request.key).variable, request.value,
                                           SubSeq(request.url, Len(SET_URL) + 1, Len(request.url))))
    /\ UNCHANGED <<labels, outputs, status, sends, ticks, reloads, arg, ret, host>>

\* the status element cleared when a request completes
SetResponse_clears(request) ==
    /\ request.method = "POST"
    /\ BagIn(request, inflight)
    /\ inflight' = Settle(request)
    /\ status' = EMPTY
    /\ UNCHANGED <<changed_values, labels, outputs, sends, ticks, reloads, arg, ret, host>>

\* the host answers an update request, with whatever HTTP status
SetResponse(request) ==
    /\ request.method = "POST"
    /\ BagIn(request, inflight)
    /\ inflight' = Settle(request)
    /\ UNCHANGED <<changed_values, labels, outputs, status, sends, ticks, reloads, arg, ret, host>>

\* the optimistic entry rolled back when the request fails
SetFailure_rollback(request, err) ==
    /\ request.method = "POST"
    /\ BagIn(request, inflight)
    /\ inflight' = Settle(request)
    /\ status' = ErrorMessage(err)
    /\ changed_values' = SelectSeq(changed_values, LAMBDA e : e.source # request.key)
    /\ UNCHANGED <<labels, outputs, sends, ticks, reloads, arg, ret, host>>

\* the request issued again when it fails
SetFailure_retry(request, err) ==
    /\ request.method = "POST"
    /\ BagIn(request, inflight)
    /\ inflight' = Issue(request) (-) SetToBag({request})
    /\ status' = ErrorMessage(err)
    /\ UNCHANGED <<changed_values, labels, outputs, sends, ticks, reloads, arg, ret, host>>

\* an update request fails at the transport
SetFailure(request, err) ==
    /\ request.method = "POST"
    /\ BagIn(request, inflight)
    /\ inflight' = Settle(request)
    /\ status' = ErrorMessage(err)
    /\ UNCHANGED <<changed_values, labels, outputs, sends, ticks, reloads, arg, ret, host>>

\* polling suppressed once an error has been reported
Tick_suppressed ==
    /\ ticks < MaxTicks
    /\ status = EMPTY
    /\ ticks' = ticks + 1
    /\ inflight' = Issue(PollRequest)
    /\ UNCHANGED <<changed_values, labels, outputs, status, sends, reloads, arg, ret, host>>

\* setInterval fires: poll()
Tick ==
    /\ ticks < MaxTicks
    /\ ticks' = ticks + 1
    /\ inflight' = Issue(PollRequest)
    /\ UNCHANGED <<changed_values, labels, outputs, status, sends, reloads, arg, ret, host>>

\* the token compared without regard to case
IsRefresh_anycase(body) == body \in { "refresh", "Refresh" }

\* the body compared with a token the host never sends
IsRefresh_wrongtoken(body) == body = "reload"

\* line 74
IsRefresh(body) == body = "refresh"

\* the body of a validity check arrives
PollResponse(body) ==
    /\ BagIn(PollRequest, inflight)
    /\ inflight' = Settle(PollRequest)
    /\ reloads' = IF IsRefresh(body) THEN reloads + 1 ELSE reloads
    /\ UNCHANGED <<changed_values, labels, outputs, status, sends, ticks, arg, ret, host>>

\* a validity check fails, or reading its body does
PollFailure(err) ==
    /\ BagIn(PollRequest, inflight)
    /\ inflight' = Settle(PollRequest)
    /\ status' = ErrorMessage(err)
    /\ UNCHANGED <<changed_values, labels, outputs, sends, ticks, reloads, arg, ret, host>>

\* the navigation started by location.reload() commits: the document and
\* everything it owns is gone, the host serves the page anew
Unload ==
    /\ reloads > 0
    /\ \E page \in Pages :
          /\ changed_values' = <<>>
          /\ labels' = [id \in page.labels |-> INITIAL_LABEL]
          /\ outputs' = [id \in page.outputs |-> EMPTY]
    /\ status' = EMPTY
    /\ inflight' = EmptyBag
    /\ sends' = 0
    /\ ticks' = 0
    /\ reloads' = 0
    /\ UNCHANGED <<arg, ret, host>>

(***************************************************************************)
(* Specifications                                                          *)
(***************************************************************************)
Init ==
    /\ \E page \in Pages : Loaded(page)
    /\ arg = EMPTY
    /\ ret = NoRet
    /\ host = "valid"

Next ==
    \/ \E t \in Tunables, v \in Values : Send(QualifiedName(t), v, t.type)
    \/ \E r \in BagToSet(inflight) : SetResponse(r)
    \/ \E r \in BagToSet(inflight), e \in Errors : SetFailure(r, e)
    \/ Tick
    \/ \E b \in Bodies : PollResponse(b)
    \/ \E e \in Errors : PollFailure(e)
    \/ Unload

Spec == Init /\ [][Next]_vars

\* edits alone, of any type: no request settles, the timer does not fire
NextEdit == \E s \in Sources, v \in Values, t \in DataTypes : Edit(s, v, t)

SpecEdit == Init /\ [][NextEdit]_vars

\* a control calls send, in the specification of the timer firing for ever
LiveSend(source, value, data_type) ==
    /\ sends < MaxLiveSends
    /\ send(source, value, data_type)

\* the timer goes on firing after the counted ticks: the counter stays at its
\* bound; the validity checks in flight and the reload calls stay bounded
TickOn ==
    /\ ticks = MaxTicks
    /\ CopiesIn(PollRequest, inflight) < MaxTicks
    /\ reloads < MaxTicks
    /\ inflight' = Issue(PollRequest)
    /\ UNCHANGED <<changed_values, labels, outputs, status, sends, ticks, reloads, arg, ret, host>>

\* the tunable set of the host changes: from now on it answers `refresh`
Invalidate ==
    /\ host = "valid"
    /\ host' = "stale"
    /\ UNCHANGED <<changed_values, labels, outputs, status, inflight,
                   sends, ticks, reloads, arg, ret>>

\* a validity check is answered: with `refresh` by a stale host
AnswerPoll(body) ==
    /\ host = "stale" => body = "refresh"
    /\ PollResponse(body)

\* a validity check fails: not once the host answers every one of them
FailPoll(err) ==
    /\ host = "valid"
    /\ PollFailure(err)

PollSettled ==
    \/ \E b \in Bodies : AnswerPoll(b)
    \/ \E e \in Errors : FailPoll(e)

NextLive ==
    \/ \E t \in Tunables, v \in Values : LiveSend(QualifiedName(t), v, t.type)
    \/ \E r \in BagToSet(inflight) : SetResponse(r)
    \/ \E r \in BagToSet(inflight), e \in Errors : SetFailure(r, e)
    \/ Tick
    \/ TickOn
    \/ \E b \in Bodies : AnswerPoll(b)
    \/ \E e \in Errors : FailPoll(e)
    \/ Unload
    \/ Invalidate

\* the timer fires for ever, every validity check is answered or fails, and
\* a navigation that was started commits
SpecLive ==
    /\ Init
    /\ [][NextLive]_vars
    /\ WF_vars(Tick)
    /\ WF_vars(TickOn)
    /\ WF_vars(PollSettled)
    /\ WF_vars(Unload)

(***************************************************************************)
(* The earlier variant of the script (second half of the file): the group  *)
(* is the first segment of the name, the variable the second.              *)
(***************************************************************************)
UNDEFINED == <<"u", "n", "d", "e", "f", "i", "n", "e", "d">>

\* split[0]
FirstOf(split) == split[1]
\* split[1], undefined when the name has no `::`
SecondOf(split) == IF Len(split) >= 2 THEN split[2] ELSE UNDEFINED

\* line 128: the test reads the edited name, not the entry's
SameModuleOld(module, source, map_source) == module = FirstOf(Split(source, SEP))

RECURSIVE PrintMapOld(_, _, _)
\* lines 126-131
PrintMapOld(map, module, source) ==
    IF Len(map) = 0 THEN <<>>
    ELSE (IF SameModuleOld(module, source, map[1].source)
          THEN map[1].line \o NEWLINE ELSE <<>>)
         \o PrintMapOld(Tail(map), module, source)

\* lines 111-134
changed_value_old(source, value, data_type) ==
    LET split == Split(source, SEP)
        module == FirstOf(split)
        variable == SecondOf(split)
        line == RenderLine(variable, value, data_type)
        id == module \o OUTPUT_SUFFIX
    IN  /\ changed_values' = MapSet(changed_values, source, line)
        /\ outputs' = IF id \in DOMAIN outputs
                      THEN [outputs EXCEPT ![id] = PrintMapOld(changed_values', module, source)]
                      ELSE outputs  \* TypeError at line 133, nothing written

\* lines 89-109
send_old(source, value, data_type) ==
    /\ labels' = IF LabelId(source) \in DOMAIN labels
                 THEN [labels EXCEPT ![LabelId(source)] = value]
                 ELSE labels
    /\ inflight' = Issue(SetRequest(source, value, data_type))
    /\ changed_value_old(source, value, data_type)
    /\ sends' = sends + 1
    /\ UNCHANGED <<status, ticks, reloads, arg, ret, host>>

EditOld(source, value, data_type) ==
    /\ sends < MaxEdits
    /\ send_old(source, value, data_type)

\* the page served with that script: a text view per first segment
OldPage ==
    [labels |-> { LabelId(QualifiedName(t)) : t \in Labelled },
     outputs |-> { t.path[1] \o OUTPUT_SUFFIX : t \in Tunables }]

InitOld ==
    /\ Loaded(OldPage)
    /\ arg = EMPTY
    /\ ret = NoRet
    /\ host = "valid"

NextOld == \E s \in Sources, v \in Values, t \in DataTypes : EditOld(s, v, t)

SpecOld == InitOld /\ [][NextOld]_vars

(***************************************************************************)
(* A host whose groups `a::b` and `a_b` differ only in `::` against `_`,   *)
(* on the page that has, for every group, the element the script looks up. *)
(***************************************************************************)
SharedTunables ==
    { [path |-> <<<<"a">>, <<"b">>>>, name |-> <<"x">>, type |-> F64_TYPE],
      [path |-> <<<<"a", "_", "b">>>>, name |-> <<"x">>, type |-> STRING_TYPE],
      [path |-> <<<<"a">>>>, name |-> <<"x">>, type |-> F64_TYPE] }

SharedSources == { QualifiedName(t) : t \in SharedTunables }
SharedGroups == { GroupOf(t) : t \in SharedTunables }
SharedTunableOf(source) == CHOOSE t \in SharedTunables : QualifiedName(t) = source

SharedPage ==
    [labels |-> { LabelId(QualifiedName(t)) : t \in SharedTunables },
     outputs |-> { ScriptOutputId(g) : g \in SharedGroups }]

InitShared ==
    /\ Loaded(SharedPage)
    /\ arg = EMPTY
    /\ ret = NoRet
    /\ host = "valid"

NextShared == \E s \in SharedSources, v \in Values, t \in DataTypes : Edit(s, v, t)

SpecShared == InitShared /\ [][NextShared]_vars

\* split_name on its own, over qualified names of up to MaxSegments segments
Segments == { <<"a">>, <<"b">>, <<"x">>, <<"a", "_", "b">> }
SplitInputs ==
    { Join(l, SEP) : l \in UNION { [1..k -> Segments] : k \in 1..MaxSegments } }

InitSplit ==
    /\ \E page \in Pages : Loaded(page)
    /\ arg \in SplitInputs
    /\ ret = NoRet
    /\ host = "valid"

CallSplitName ==
    /\ ret = NoRet
    /\ ret' = split_name(arg)
    /\ UNCHANGED <<changed_values, labels, outputs, status, inflight,
                   sends, ticks, reloads, arg, host>>

SpecSplit == InitSplit /\ [][CallSplitName]_vars

(***************************************************************************)
(* Properties                                                              *)
(***************************************************************************)
LogKeys(map) == [i \in 1..Len(map) |-> map[i].source]
KeySet(map) == { map[i].source : i \in 1..Len(map) }

RECURSIVE Lines(_)
\* the lines of the entries, each followed by a line break
Lines(entries) ==
    IF entries = <<>> THEN <<>>
    ELSE entries[1].line \o <<"\n">> \o Lines(Tail(entries))

\* the entries of the tunables the host declares in `group`
EntriesOfGroup(map, group) ==
    SelectSeq(map, LAMBDA e : GroupOf(TunableOf(e.source)) = group)

\* C1: the change log has exactly one entry per name edited since the page
\* loaded (with edits alone, one per key among the requests issued); an edit
\* of a name leaves the entry holding the line rendered for that edit; the
\* order of the keys is the order of first edit: an edit of a new name
\* appends it, a re-edit moves nothing and changes no other entry.
C1_LogInvariant ==
    /\ []( /\ Len(changed_values) = Cardinality(KeySet(changed_values))
           /\ KeySet(changed_values) = { r.key : r \in BagToSet(inflight) } )
    /\ [][ \A s \in Sources, v \in Values, d \in DataTypes :
             Edit(s, v, d) =>
               /\ LogKeys(changed_values') =
                     IF s \in KeySet(changed_values)
                     THEN LogKeys(changed_values)
                     ELSE Append(LogKeys(changed_values), s)
               /\ MapGet(changed_values', s) = RenderLine(TunableOf(s).name, v, d)
               /\ \A i \in 1..Len(changed_values) :
                     changed_values[i].source # s => changed_values'[i] = changed_values[i]
         ]_vars

\* a name re-edited with another value after a second name was first edited:
\* three edits, two entries, two different requests for the first entry's key
C1_Witness ==
    /\ sends = 3
    /\ Len(changed_values) = 2
    /\ Cardinality({ r \in BagToSet(inflight) : r.key = changed_values[1].source }) = 2

\* C2: the text an edit writes for the edited group is exactly the lines of
\* the log entries of that group, each followed by a line break, in the
\* order of the log; no line of another group's entry is in it.
C2_GroupText ==
    [][ \A s \in Sources, v \in Values, d \in DataTypes :
          Edit(s, v, d) /\ OutputElementId(split_name(s).module) \in DOMAIN outputs =>
             outputs'[OutputElementId(split_name(s).module)] =
                Lines(EntriesOfGroup(changed_values', GroupOf(TunableOf(s))))
      ]_vars

\* the log starts with an entry of another group and the text of group `a`
\* is the two lines of a::x and a::y that follow it
C2_Witness ==
    /\ Len(changed_values) = 3
    /\ GroupOf(TunableOf(changed_values[1].source)) # <<"a">>
    /\ GroupOf(TunableOf(changed_values[2].source)) = <<"a">>
    /\ GroupOf(TunableOf(changed_values[3].source)) = <<"a">>
    /\ <<"a", "_", "o", "u", "t", "p", "u", "t">> \in DOMAIN outputs
    /\ outputs[<<"a", "_", "o", "u", "t", "p", "u", "t">>] =
          changed_values[2].line \o <<"\n">> \o changed_values[3].line \o <<"\n">>

\* C3: the line recorded by an edit is `const <name>: &str = "<value>";`
\* for the type `string` and `const <name>: <type> = <value>;` otherwise,
\* <name> being the constant's own name.
C3_Line ==
    [][ \A s \in Sources, v \in Values, d \in DataTypes :
          Edit(s, v, d) =>
             MapGet(changed_values', s) =
                IF d = <<"s", "t", "r", "i", "n", "g">>
                THEN <<"c", "o", "n", "s", "t", " ">> \o TunableOf(s).name
                     \o <<":", " ", "&", "s", "t", "r", " ", "=", " ", "\"">> \o v
                     \o <<"\"", ";">>
                ELSE <<"c", "o", "n", "s", "t", " ">> \o TunableOf(s).name
                     \o <<":", " ">> \o d \o <<" ", "=", " ">> \o v \o <<";">>
      ]_vars

\* `const y: &str = "1";` and `const x: f64 = 2;` are both in the log
C3_Witness ==
    /\ \E i \in 1..Len(changed_values) :
          changed_values[i].line =
             <<"c", "o", "n", "s", "t", " ", "y", ":", " ", "&", "s", "t", "r",
               " ", "=", " ", "\"", "1", "\"", ";">>
    /\ \E i \in 1..Len(changed_values) :
          changed_values[i].line =
             <<"c", "o", "n", "s", "t", " ", "x", ":", " ", "f", "6", "4",
               " ", "=", " ", "2", ";">>

\* positions at which `::` occurs in a name
SeparatorsOf(name) == { i \in 1..Len(name) : MatchAt(name, <<":", ":">>, i) }
LastSeparator(name) ==
    CHOOSE i \in SeparatorsOf(name) : \A j \in SeparatorsOf(name) : j <= i

\* C9: for a name with a `::`, split_name returns as variable what follows
\* the last `::` and as module what precedes it, and module ++ `::` ++
\* variable is the name; for a name without `::` the module is empty and
\* the variable is the name.
C9_LosslessSplit ==
    ret # NoRet =>
       IF SeparatorsOf(arg) # {}
       THEN /\ ret.variable = SubSeq(arg, LastSeparator(arg) + 2, Len(arg))
            /\ ret.module = SubSeq(arg, 1, LastSeparator(arg) - 1)
            /\ ret.module \o <<":", ":">> \o ret.variable = arg
       ELSE /\ ret.module = <<>>
            /\ ret.variable = arg

\* split_name has returned for a name of three segments
C9_Witness ==
    /\ ret # NoRet
    /\ Cardinality(SeparatorsOf(arg)) = 2
    /\ Cardinality(SeparatorsOf(ret.module)) = 1

Entry(map, key) == IF MapHas(map, key) THEN <<MapGet(map, key)>> ELSE <<>>
PollsInFlight == CopiesIn(PollRequest, inflight)
UpdatesInFlight == { r \in BagToSet(inflight) : r.method = "POST" }

\* C4: when the request of a send fails, the status element receives
\* `HTTP Error: ` followed by the error; the log entry of a request in
\* flight is present, and neither the failure nor a response changes the
\* log or any text view.
C4_FailureKeepsLocalState ==
    /\ [](\A r \in UpdatesInFlight : MapHas(changed_values, r.key))
    /\ [][ \A r \in UpdatesInFlight :
             /\ \A e \in Errors :
                   SetFailure(r, e) =>
                      /\ status' = <<"H", "T", "T", "P", " ", "E", "r", "r", "o", "r", ":", " ">> \o e
                      /\ MapHas(changed_values', r.key)
                      /\ changed_values' = changed_values
                      /\ outputs' = outputs
             /\ SetResponse(r) =>
                   /\ changed_values' = changed_values
                   /\ outputs' = outputs
         ]_vars

\* no validity check was issued, the request of a send has failed, and the
\* entry and the text written by the send are there
C4_Witness ==
    /\ ticks = 0
    /\ sends = 1
    /\ inflight = EmptyBag
    /\ status = <<"H", "T", "T", "P", " ", "E", "r", "r", "o", "r", ":", " ",
                  "F", "a", "i", "l", "e", "d">>
    /\ Len(changed_values) = 1
    /\ \E id \in DOMAIN outputs : outputs[id] = changed_values[1].line \o <<"\n">>

\* C5: location.reload() is called at most once in a page instance.
C5_ReloadOnce == reloads <= 1

\* C6: a validity-check body other than `refresh` triggers no reload and
\* leaves the log, the text views, the labels and the status unchanged.
C6_OtherBodyNoOp ==
    [][ \A b \in Bodies \ { "refresh" } :
          PollResponse(b) =>
             /\ reloads' = reloads
             /\ changed_values' = changed_values
             /\ outputs' = outputs
             /\ labels' = labels
             /\ status' = status
      ]_vars

\* the one validity check issued was answered, no error was reported, no
\* reload was triggered, and the log has an entry
C6_Witness ==
    /\ ticks = 1
    /\ PollsInFlight = 0
    /\ reloads = 0
    /\ status = EMPTY
    /\ Len(changed_values) = 1

\* C7: a failed validity check writes the error to the status element and
\* triggers no reload; whatever has failed before, the timer can fire (as
\* long as the bound on ticks allows) and its tick issues one more request.
C7_FailureThenNextTick ==
    /\ [](ticks < MaxTicks => ENABLED Tick)
    /\ [][ /\ \A e \in Errors :
                PollFailure(e) =>
                   /\ status' = <<"H", "T", "T", "P", " ", "E", "r", "r", "o", "r", ":", " ">> \o e
                   /\ reloads' = reloads
           /\ Tick => CopiesIn(PollRequest, inflight') = PollsInFlight + 1
         ]_vars

\* no send was made, a validity check failed, and the next tick has issued
\* a request that is in flight
C7_Witness ==
    /\ sends = 0
    /\ ticks = 2
    /\ PollsInFlight = 1
    /\ reloads = 0
    /\ status # EMPTY

\* C8: the entry of a key changes only in a send for that key, which leaves
\* it the line rendered for that send (or when the page unloads); no text
\* view changes in any other step: responses and failures, in whatever
\* order they arrive, touch neither.
C8_LatestSendWins ==
    [][ /\ \A t \in Tunables, v \in Values :
             Send(QualifiedName(t), v, t.type) =>
                Entry(changed_values', QualifiedName(t)) = <<RenderLine(t.name, v, t.type)>>
        /\ \A t \in Tunables :
             Entry(changed_values', QualifiedName(t)) # Entry(changed_values, QualifiedName(t)) =>
                \/ \E v \in Values : Send(QualifiedName(t), v, t.type)
                \/ Unload
        /\ outputs' # outputs =>
             \/ \E t \in Tunables, v \in Values : Send(QualifiedName(t), v, t.type)
             \/ Unload
      ]_vars

\* a key edited twice with different values: the request of the second edit
\* has settled, that of the first is still in flight, and the entry holds the
\* line of the second
C8_Witness ==
    /\ sends = 2
    /\ Len(changed_values) = 1
    /\ BagCardinality(inflight) = 1
    /\ \E r \in UpdatesInFlight :
          /\ r.key = changed_values[1].source
          /\ changed_values[1].line #
                RenderLine(TunableOf(r.key).name, r.value, TunableOf(r.key).type)

\* the id a page gives the text view of a group: `{group}_output`, with the
\* group name as it is or with every `::` of it written `_`
GroupViewId(group) ==
    IF DOMAIN outputs = { PlainOutputId(g) : g \in Groups }
    THEN group \o <<"_", "o", "u", "t", "p", "u", "t">>
    ELSE Join(Split(group, <<":", ":">>), <<"_">>) \o <<"_", "o", "u", "t", "p", "u", "t">>

\* C10: on a page whose text views are named after the groups, an edit
\* writes the text of the edited name's group into the view of that group
\* and changes no other view.
C10_GroupElement ==
    [][ \A s \in Sources, v \in Values, d \in DataTypes :
          /\ Edit(s, v, d)
          /\ DOMAIN outputs \in { { PlainOutputId(g) : g \in Groups },
                                  { FlatOutputId(g) : g \in Groups } }
          => /\ outputs'[GroupViewId(GroupOf(TunableOf(s)))] =
                   Lines(EntriesOfGroup(changed_values', GroupOf(TunableOf(s))))
             /\ \A id \in DOMAIN outputs :
                   id # GroupViewId(GroupOf(TunableOf(s))) => outputs'[id] = outputs[id]
      ]_vars

\* C11: a send sets the label of the edited name to the value when the page
\* has that label and changes no other label; with or without the label it
\* issues one update request carrying the name, the value and the type,
\* records the entry and, when the text view it looks up exists, rewrites it.
C11_LabelOptional ==
    [][ \A t \in Tunables, v \in Values :
          Send(QualifiedName(t), v, t.type) =>
             /\ DOMAIN labels' = DOMAIN labels
             /\ \A id \in DOMAIN labels :
                   labels'[id] = IF id = QualifiedName(t) \o <<"_", "l", "a", "b", "e", "l">>
                                 THEN v ELSE labels[id]
             /\ CopiesIn(SetRequest(QualifiedName(t), v, t.type), inflight') =
                   CopiesIn(SetRequest(QualifiedName(t), v, t.type), inflight) + 1
             /\ Entry(changed_values', QualifiedName(t)) # <<>>
             /\ OutputElementId(GroupOf(t)) \in DOMAIN outputs =>
                   outputs'[OutputElementId(GroupOf(t))] =
                      Lines(EntriesOfGroup(changed_values', GroupOf(t)))
      ]_vars

\* a::y, which has no label, was edited: no label changed, its request is in
\* flight, its entry is recorded and the text view of group a holds its line
C11_Witness ==
    /\ <<"a", ":", ":", "y", "_", "l", "a", "b", "e", "l">> \notin DOMAIN labels
    /\ \A id \in DOMAIN labels : labels[id] = <<"0">>
    /\ sends = 1
    /\ Len(changed_values) = 1
    /\ changed_values[1].source = <<"a", ":", ":", "y">>
    /\ \E r \in UpdatesInFlight : r.key = <<"a", ":", ":", "y">>
    /\ outputs[<<"a", "_", "o", "u", "t", "p", "u", "t">>] = changed_values[1].line \o <<"\n">>

AnySend == \E t \in Tunables, v \in Values : Send(QualifiedName(t), v, t.type)
UpdateCount == BagCardinality(inflight) - PollsInFlight

\* C12: a send issues exactly one request, POST /set/<type> with the key
\* and value of the call; a tick issues exactly one GET /should_refresh, also
\* while earlier ones are in flight; no other event issues a request: a
\* response or a failure only takes its own request away.  So never more
\* update requests than sends, nor more validity checks than ticks.
C12_OneRequestPerEvent ==
    /\ [](UpdateCount <= sends /\ PollsInFlight <= ticks)
    /\ [][ /\ \A t \in Tunables, v \in Values :
                Send(QualifiedName(t), v, t.type) =>
                   inflight' = inflight (+)
                      SetToBag({ [method |-> "POST",
                                  url |-> <<"/", "s", "e", "t", "/">> \o t.type,
                                  key |-> QualifiedName(t),
                                  value |-> v] })
           /\ Tick =>
                inflight' = inflight (+)
                   SetToBag({ [method |-> "GET",
                               url |-> <<"/", "s", "h", "o", "u", "l", "d", "_",
                                         "r", "e", "f", "r", "e", "s", "h">>] })
           /\ ~(AnySend \/ Tick \/ Unload) =>
                \E r \in BagToSet(inflight) : inflight' = inflight (-) SetToBag({r})
         ]_vars

\* the request of the one send has failed and is not in flight again, and
\* two validity checks are in flight at the same time
C12_Witness ==
    /\ sends = 1
    /\ UpdateCount = 0
    /\ status # EMPTY
    /\ ticks = 2
    /\ PollsInFlight = 2

\* C13: once location.reload() has been called in a page instance, no tick
\* of that instance issues a validity-check request.
C13_NoTickAfterReload == [][Tick => reloads = 0]_vars

\* C14: the response to an update request, whatever its HTTP status, leaves
\* the status element, the log, the labels and the text views as they were;
\* an error message in the status element stays.
C14_ResponseSilent ==
    [][ \A r \in UpdatesInFlight :
          SetResponse(r) =>
             /\ status' = status
             /\ (status # <<>> => status' # <<>>)
             /\ changed_values' = changed_values
             /\ labels' = labels
             /\ outputs' = outputs
             /\ reloads' = reloads
      ]_vars

\* two sends and no validity check: both requests have settled, one of them
\* by a failure whose message is in the status element
C14_Witness ==
    /\ sends = 2
    /\ ticks = 0
    /\ inflight = EmptyBag
    /\ status = <<"H", "T", "T", "P", " ", "E", "r", "r", "o", "r", ":", " ",
                  "A", "b", "o", "r", "t">>
    /\ Len(changed_values) = 2

\* C15: a name that has an entry has one after every step that is not the
\* unloading of the page; the unloading leaves the log empty.
C15_EntriesPersist ==
    [][ /\ Unload => changed_values' = <<>>
        /\ ~Unload => \A k \in KeySet(changed_values) : MapHas(changed_values', k)
      ]_vars

\* two names have entries, and every request issued after them (two update
\* requests, two validity checks, at least one failure) has settled without
\* a reload
C15_Witness ==
    /\ Len(changed_values) = 2
    /\ sends = 2
    /\ ticks = 2
    /\ inflight = EmptyBag
    /\ reloads = 0
    /\ status # EMPTY

\* C16: once the host is stale, so that it answers every validity check
\* with `refresh`, then, the timer firing and the checks being answered, the
\* page is reloaded: location.reload() is called and the page unloads, again
\* and again for as long as the host goes on answering `refresh`.
C16_EventuallyReloads == <>(host = "stale") => []<><<Unload>>_vars

\* no send, one validity check has failed, the other was answered `refresh`
\* and location.reload() has been called
C16_Witness ==
    /\ host = "stale"
    /\ sends = 0
    /\ ticks = 2
    /\ inflight = EmptyBag
    /\ status # EMPTY
    /\ reloads = 1

\* the entries whose name starts with the segment `first`
EntriesOfFirst(map, first) ==
    SelectSeq(map, LAMBDA e : TunableOf(e.source).path[1] = first)

\* C17: in the earlier variant, the text an edit writes for the edited group
\* (the first segment of the name) is the lines of exactly the entries whose
\* own first segment is that group.
C17_OldGroupText ==
    [][ \A s \in Sources, v \in Values, d \in DataTypes :
          EditOld(s, v, d) =>
             outputs'[TunableOf(s).path[1] \o <<"_", "o", "u", "t", "p", "u", "t">>] =
                Lines(EntriesOfFirst(changed_values', TunableOf(s).path[1]))
      ]_vars

\* the entries of the tunables a host with like-named groups declares in `group`
SharedEntriesOfGroup(map, group) ==
    SelectSeq(map, LAMBDA e : GroupOf(SharedTunableOf(e.source)) = group)

\* C18: with every element the script looks up present, in every state reached
\* by edits the text view of each group that has a log entry holds the current
\* lines of that group's entries, in insertion order (so an edit in one group
\* never overwrites the view of another).
C18_ViewsNeverStale ==
    \A g \in SharedGroups :
        SharedEntriesOfGroup(changed_values, g) # <<>>
        => outputs[ScriptOutputId(g)] = Lines(SharedEntriesOfGroup(changed_values, g))

RECURSIVE ContainsFrom(_, _, _)
ContainsFrom(s, pat, q) ==
    IF q + Len(pat) - 1 > Len(s) THEN FALSE
    ELSE IF SubSeq(s, q, q + Len(pat) - 1) = pat THEN TRUE
    ELSE ContainsFrom(s, pat, q + 1)

\* the text `s` includes `pat`
Contains(s, pat) == ContainsFrom(s, pat, 1)

\* C19: a send whose edited group has no text-view element the script can
\* find never ends with the update request issued and the log entry recorded
\* while no text view shows that entry's line.
C19_SendAtomic ==
    [][ \A s \in Sources, v \in Values, d \in DataTypes :
          /\ Edit(s, v, d)
          /\ ScriptOutputId(GroupOf(TunableOf(s))) \notin DOMAIN outputs
          => ~ /\ \E r \in UpdatesInFlight' : CopiesIn(r, inflight') > CopiesIn(r, inflight)
               /\ \E i \in 1..Len(changed_values') : changed_values'[i].source = s
               /\ \A id \in DOMAIN outputs' :
                     ~Contains(outputs'[id],
                               changed_values'[CHOOSE i \in 1..Len(changed_values') :
                                                 changed_values'[i].source = s].line \o <<"\n">>)
      ]_vars

====
